---- MODULE Spec2Model ----
(***************************************************************************)
(* Model of the ROS bag replay pipeline of pybot (src/ros/bag_utils.py):   *)
(* the per-channel decoders, ROSBagReader.__init__ and its start offset,   *)
(* ROSBagReader.iteritems / decode_msg,                                    *)
(* ROSBagReader.establish_tfs, ROSBagReader.check_tf_relations and         *)
(* ROSBagController.subscribe / run.                                       *)
(*                                                                         *)
(* The external collaborators (the rosbag file, the tf listener, the       *)
(* callbacks) are the environment: each message read from the bag, each    *)
(* lookupTransform outcome and each callback outcome is an input of the    *)
(* step that consumes it.                                                  *)
(***************************************************************************)
EXTENDS Integers, Sequences, FiniteSets, TLC

(* ------------------------------ bounds --------------------------------- *)
\* longest bag (number of messages read_messages can deliver) explored
MaxLog == 3
\* largest every_k_frames explored
MaxPeriod == 2
\* largest message timestamp explored
MaxTime == 2
\* largest number of /tf messages in the bag explored
MaxTfLog == 2
\* longest list of relations handed to establish_tfs / check_tf_relations
MaxRequest == 2
\* number of distinct poses lookupTransform can report
MaxPose == 2
\* number of establish_tfs calls on one reader explored
MaxCalls == 2
\* largest number of range samples of a laser scan explored
MaxPoints == 2
\* largest range reading explored
MaxRange == 1
\* largest angle_min / angle_max explored, in units of the angular quantum
MaxAngle == 1
\* largest angle_increment explored, in units of the angular quantum
MaxIncrement == 2
\* longest name array of a gazebo ModelStates message explored
MaxNames == 2

(* --------------------------- decoder set -------------------------------- *)
\* python's None
None == "None"

\* default channels of the decoders (bag_utils.py:73, 49, 112)
ScanChannel == "/scan"
ImageChannel == "/camera/rgb/image_raw"
TfChannel == "/tf"

\* the channels of the decoder registry handed to ROSBagReader
Channels == {ScanChannel, ImageChannel, TfChannel}

\* the decoder class registered for a channel
DecoderClass(channel) ==
    CASE channel = ScanChannel -> "LaserScanDecoder"
      [] channel = ImageChannel -> "ImageDecoder"
      [] channel = TfChannel -> "TfDecoderAndPublisher"

\* raw payloads: "ok" is a well-formed message of the channel's type, "bad"
\* one the channel's decoder cannot convert
Payloads(channel) == IF channel = TfChannel THEN {"ok"} ELSE {"ok", "bad"}

\* the raw (channel, msg, t) tuples rosbag's read_messages can deliver
RawMessages ==
    UNION {{[channel |-> c, data |-> d, t |-> t] : d \in Payloads(c), t \in 1..MaxTime}
             : c \in Channels}

\* the value slot of a tf() call that raised
NoPose == 0

\* the exception class a configuration error of the reader is raised with
\* (start_idx out of range; wrongly defined relations_lut)
ConfigurationError == "ValueError"

\* outcome of a decode call: it returns a value, or raises
Returned(v) == [raised |-> FALSE, value |-> v]
Raised == [raised |-> TRUE, value |-> None]

\* LaserScanDecoder.decode: the whole body is inside try/except; the except
\* branch prints and falls off the end of the function, returning None
LaserScanDecoder_decode(data) ==
    IF data = "ok" THEN Returned("points") ELSE Returned(None)

\* ImageDecoder.decode: CvBridgeError is printed and swallowed, after which
\* im_resize(im) reads the unbound local im and raises
ImageDecoder_decode(data) ==
    IF data = "ok" THEN Returned("image") ELSE Raised

\* TfDecoderAndPublisher.decode: publishes the message and returns None
TfDecoderAndPublisher_decode(data) == Returned(None)

\* dec.decode(data), dispatched on the decoder's class
decode(channel, data) ==
    CASE DecoderClass(channel) = "LaserScanDecoder" -> LaserScanDecoder_decode(data)
      [] DecoderClass(channel) = "ImageDecoder" -> ImageDecoder_decode(data)
      [] DecoderClass(channel) = "TfDecoderAndPublisher" -> TfDecoderAndPublisher_decode(data)

\* Decoder.__init__: channel, every_k_frames, counter at 0
Decoder(channel, every_k_frames) ==
    [channel |-> channel, every_k_frames |-> every_k_frames, sample_counter |-> 0]

\* Decoder.should_decode: the answer for the next observed message ...
should_decode(dec) == dec.sample_counter % dec.every_k_frames = 0

\* ... and its side effect: being asked counts the message
should_decode_effect(dec) == [dec EXCEPT !.sample_counter = @ + 1]

\* the decoder registries explored: the three decoders constructed with
\* every_k_frames = k, for every sampling period k
Registries == {[c \in Channels |-> Decoder(c, k)] : k \in 1..MaxPeriod}

(* ------------------------------ state ----------------------------------- *)
VARIABLES
    decoder,      \* ROSBagReader.decoder: channel -> Decoder
    cb_,          \* ROSBagController.cb_: the channels that have a callback
    run_pc,       \* position of run(): "idle", "running", "done", "failed"
    run_err,      \* exception class run() terminated with, or None
    log,          \* raw tuples pulled so far from read_messages by iteritems
    decoded,      \* decoded[i]: dec.decode was called on log[i]
    frames,       \* Frames yielded so far by iteritems
    calls,        \* callback invocations so far: <<channel, t, value>>
    cb_raised,    \* the most recent callback invocation raised
    published,    \* messages handed so far to the publisher of the registered /tf decoder
    relations_map,\* ROSBagReader.relations_map: (from_tf, to_tf) -> pose
    tf_pc,        \* position of establish_tfs: "idle", "loop", "returned", "failed"
    tf_relations, \* the relations argument of the current establish_tfs call
    tf_idx,       \* number of /tf messages the current call has read
    tf_total,     \* number of /tf messages in the bag
    tf_looked,    \* the relations handed to lookupTransform at the last message
    tf_result,    \* the list establish_tfs returned
    tf_err,       \* exception of establish_tfs: its class and the relations it names
    tf_calls,     \* number of establish_tfs calls made
    tf_resolved,  \* requested relations lookupTransform has answered in the current call
    tf_ever,      \* requested relations lookupTransform has answered in any call
    tf_asked,     \* the last tf(from_tf, to_tf) call since the last pass, and its outcome
    tf_published, \* /tf messages handed to the publisher of the current pass's own tf decoder
    chk_pc,       \* position of check_tf_relations: "idle", "loop", "returned", "failed"
    chk_relations,\* the relations argument of check_tf_relations
    chk_log,      \* the messages check_tf_relations has read
    checked,      \* the local set checked of check_tf_relations
    chk_err,      \* exception class check_tf_relations terminated with, or None
    chk_calls,    \* number of check_tf_relations calls made so far
    laser,        \* the LaserScanDecoder: __angle_min, __angle_max, __cos_sin_map
    laser_last,   \* the scan last handed to laser's decode (at most one kept)
    laser_out,    \* what that decode call returned
    gz_index,     \* GazeboDecoder.index
    gz_last,      \* the message last handed to the GazeboDecoder's decode (at most one kept)
    gz_out,       \* outcome of that decode call
    reader_pc,    \* the ROSBagReader: "new" (not constructed), "constructed", "failed"
    ctor_err,     \* exception class ROSBagReader.__init__ raised, or None
    start_idx,    \* ROSBagReader.start_idx: the start offset, a percentage
    gt_poses,     \* ROSBagReader.gt_poses
    log_start,    \* the bag's get_start_time()
    log_end,      \* the bag's get_end_time()
    exclusive,    \* read_messages leaves out a message stamped exactly start_time
    skipped       \* stamps of the messages read_messages passed over as too early

run_vars == <<cb_, run_pc, run_err, log, decoded, frames, calls, cb_raised>>
tf_vars == <<relations_map, tf_pc, tf_relations, tf_idx, tf_total, tf_looked, tf_result,
             tf_err, tf_calls, tf_resolved, tf_ever, tf_asked, tf_published>>
chk_vars == <<chk_pc, chk_relations, chk_log, checked, chk_err, chk_calls>>
dec_vars == <<laser, laser_last, laser_out, gz_index, gz_last, gz_out>>
win_vars == <<reader_pc, ctor_err, start_idx, gt_poses, log_start, log_end, exclusive, skipped>>

vars == <<decoder, published, run_vars, tf_vars, chk_vars, dec_vars, win_vars>>

(* ------------------- ROSBagReader.iteritems / decode_msg ---------------- *)
\* decode_msg with the counter advanced only by a decode that succeeded
decode_msg_count_success(dec, channel, data, t) ==
    LET out == decode(channel, data)
    IN  IF should_decode(dec) /\ ~out.raised
        THEN [res |-> TRUE, msg |-> <<t, channel, out.value>>,
              dec |-> should_decode_effect(dec), called |-> TRUE]
        ELSE [res |-> FALSE, msg |-> <<None, None>>,
              dec |-> dec, called |-> should_decode(dec)]

\* decode_msg reporting success for a message the throttle skipped
decode_msg_every(dec, channel, data, t) ==
    LET out == decode(channel, data)
    IN  IF ~out.raised
        THEN [res |-> TRUE, msg |-> <<t, channel, out.value>>,
              dec |-> should_decode_effect(dec), called |-> TRUE]
        ELSE [res |-> FALSE, msg |-> <<None, None>>,
              dec |-> should_decode_effect(dec), called |-> TRUE]

\* decode_msg stamping the Frame with the decoder's counter instead of t
decode_msg_stamp(dec, channel, data, t) ==
    LET out == decode(channel, data)
    IN  IF should_decode(dec) /\ ~out.raised
        THEN [res |-> TRUE, msg |-> <<dec.sample_counter, channel, out.value>>,
              dec |-> should_decode_effect(dec), called |-> TRUE]
        ELSE [res |-> FALSE, msg |-> <<None, None>>,
              dec |-> should_decode_effect(dec), called |-> should_decode(dec)]

\* decode_msg(channel, data, t): the pair (res, msg) it returns, the decoder
\* after the call, and whether dec.decode was called.  An exception of
\* dec.decode is printed and the call falls through to (False, (None, None))
decode_msg(dec, channel, data, t) ==
    LET out == decode(channel, data)
    IN  IF should_decode(dec) /\ ~out.raised
        THEN [res |-> TRUE, msg |-> <<t, channel, out.value>>,
              dec |-> should_decode_effect(dec), called |-> TRUE]
        ELSE [res |-> FALSE, msg |-> <<None, None>>,
              dec |-> should_decode_effect(dec), called |-> should_decode(dec)]

(* --------------------------- LaserScanDecoder --------------------------- *)
\* the well-formed sensor_msgs/LaserScan messages: ranges, angle_min,
\* angle_max and angle_increment are independent fields of the message;
\* angles are whole multiples of an angular quantum
LaserScans ==
    UNION {[ranges : [1..n -> 0..MaxRange], angle_min : 0..MaxAngle,
            angle_max : 0..MaxAngle, angle_increment : 1..MaxIncrement]
             : n \in 0..MaxPoints}

\* LaserScanDecoder.__init__: bounds 0.0 and an empty table (shape (1, 0))
LaserScanDecoder_init == [angle_min |-> 0, angle_max |-> 0, cos_sin_map |-> <<>>]

\* the table built from a scan: column i holds cos and sin of
\* angle_min + i * angle_increment, represented by that angle
cos_sin_map(msg) ==
    [i \in 1..Len(msg.ranges) |-> msg.angle_min + (i - 1) * msg.angle_increment]

\* one row of the output: (r cos a, r sin a, 0), represented by r and a; a
\* zero range gives the origin whatever the angle
Point(r, a) == IF r = 0 THEN <<0, 0>> ELSE <<r, a>>

\* LaserScanDecoder.decode on a well-formed scan: the table is rebuilt when
\* its width, angle_min or angle_max differ from the scan's, and the ranges
\* are multiplied by the table
laser_scan_decode(dec, msg) ==
    LET N == Len(msg.ranges)
        rebuild == IF Len(dec.cos_sin_map) # N THEN TRUE
                   ELSE IF dec.angle_min # msg.angle_min THEN TRUE
                   ELSE dec.angle_max # msg.angle_max
        after == IF rebuild
                 THEN [angle_min |-> msg.angle_min, angle_max |-> msg.angle_max,
                       cos_sin_map |-> cos_sin_map(msg)]
                 ELSE dec
    IN  [dec |-> after,
         value |-> [i \in 1..N |-> Point(msg.ranges[i], after.cos_sin_map[i])]]

\* the scan a well-formed /scan payload of the bag stands for
OkScan == [ranges |-> <<1, 0>>, angle_min |-> 0, angle_max |-> 1, angle_increment |-> 1]

\* the registered LaserScanDecoder, the scan it was last handed and what it
\* returned, after playback pulled (channel, data) and called decode or not: a
\* well-formed scan goes through decode, a malformed one raises at
\* len(msg.ranges) before the table is looked at
registered_laser(las, last, out, channel, data, called) ==
    IF called /\ channel = ScanChannel /\ data = "ok"
    THEN LET r == laser_scan_decode(las, OkScan)
         IN  [dec |-> r.dec, last |-> <<OkScan>>, out |-> r.value]
    ELSE [dec |-> las, last |-> last, out |-> out]

\* one decode call on the decoder
laser_decode(msg) ==
    /\ LET r == laser_scan_decode(laser, msg)
       IN  laser' = r.dec /\ laser_out' = r.value
    /\ laser_last' = <<msg>>
    /\ UNCHANGED <<decoder, published, run_vars, tf_vars, chk_vars>>
    /\ UNCHANGED <<gz_index, gz_last, gz_out, win_vars>>

(* ----------------------------- GazeboDecoder ---------------------------- *)
\* the model name GazeboDecoder looks for (bag_utils.py:36)
ModelName == "mobile_base"

\* the model names the simulated world can hold
ModelNames == {ModelName, "ground_plane", "wall"}

\* the gazebo_msgs/ModelStates messages: name and pose are parallel arrays
ModelStates ==
    UNION {[name : [1..n -> ModelNames], pose : [1..n -> 1..MaxPose]] : n \in 0..MaxNames}

\* self.index = None: a value no list position takes (positions count from 0)
NoIndex == -1

\* positions (from 0) of the entries of a name array equal to ModelName
Matches(names) == {j \in 0..(Len(names) - 1) : names[j + 1] = ModelName}

\* the for loop of decode: the first matching position, None when there is none
first_match(names) ==
    IF Matches(names) = {} THEN NoIndex
    ELSE CHOOSE j \in Matches(names) : \A k \in Matches(names) : j <= k

\* msg.pose[index]: TypeError for None, IndexError past the end of the array
pose_at(msg, index) ==
    IF index = NoIndex THEN [raised |-> TRUE, err |-> "TypeError", value |-> NoPose]
    ELSE IF index >= Len(msg.pose)
    THEN [raised |-> TRUE, err |-> "IndexError", value |-> NoPose]
    ELSE [raised |-> FALSE, err |-> None, value |-> msg.pose[index + 1]]

\* GazeboDecoder.decode searching the name array on every call
gazebo_decode_search(index, msg) ==
    [index |-> first_match(msg.name), out |-> pose_at(msg, first_match(msg.name))]

\* GazeboDecoder.decode: the name array is searched only while index is None
gazebo_decode(index, msg) ==
    LET after == IF index = NoIndex THEN first_match(msg.name) ELSE index
    IN  [index |-> after, out |-> pose_at(msg, after)]

\* one decode call on the decoder
gz_decode(msg) ==
    /\ LET r == gazebo_decode(gz_index, msg)
       IN  gz_index' = r.index /\ gz_out' = r.out
    /\ gz_last' = <<msg>>
    /\ UNCHANGED <<decoder, published, run_vars, tf_vars, chk_vars>>
    /\ UNCHANGED <<laser, laser_last, laser_out, win_vars>>

(* ----------------- ROSBagReader.__init__ and start time ----------------- *)
\* the scale of the start offset: a percentage
Percent == 100

\* the start offsets a caller hands to the constructor
StartIdxs == {-1, 0, 50, Percent, Percent + 1}

\* the /gazebo/model_states messages of the bag: none, or one
GazeboLogs == {<<>>} \cup {<<msg>> : msg \in ModelStates}

\* LogReader.__init__: the start offset it is given is kept as self.start_idx
LogReader_start_idx(p) == p

\* the range test of __init__ without its upper bound
start_idx_rejected_below(p) == p < 0

\* the range test of __init__: start_idx < 0 or start_idx > 100
start_idx_rejected(p) == IF p < 0 THEN TRUE ELSE p > Percent

\* the loop of _publish_gazebo_states from the message at the head of msgs on,
\* with ind as found so far and the poses collected so far
RECURSIVE publish_gazebo_states_from(_, _, _)
publish_gazebo_states_from(msgs, ind, poses) ==
    IF msgs = <<>> THEN [raised |-> FALSE, err |-> None, gt_poses |-> poses]
    ELSE LET r == gazebo_decode(ind, Head(msgs))
         IN  IF r.out.raised
             THEN [raised |-> TRUE, err |-> r.out.err, gt_poses |-> poses]
             ELSE publish_gazebo_states_from(Tail(msgs), r.index, Append(poses, r.out.value))

\* _publish_gazebo_states over the /gazebo/model_states messages of the bag
publish_gazebo_states(msgs) == publish_gazebo_states_from(msgs, NoIndex, <<>>)

\* ROSBagReader(filename, decoder, start_idx=p) on a bag whose
\* /gazebo/model_states messages are msgs
construct(p, msgs) ==
    /\ reader_pc = "new"
    /\ start_idx' = LogReader_start_idx(p)
    /\ IF start_idx_rejected(LogReader_start_idx(p))
       THEN /\ reader_pc' = "failed"
            /\ ctor_err' = ConfigurationError
            /\ UNCHANGED <<relations_map, gt_poses>>
       ELSE LET g == publish_gazebo_states(msgs)
            IN  /\ relations_map' = <<>>
                /\ gt_poses' = g.gt_poses
                /\ reader_pc' = IF g.raised THEN "failed" ELSE "constructed"
                /\ ctor_err' = g.err
    /\ UNCHANGED <<decoder, published, run_vars, chk_vars, dec_vars>>
    /\ UNCHANGED <<tf_pc, tf_relations, tf_idx, tf_total, tf_looked, tf_result, tf_err,
                   tf_calls, tf_resolved, tf_ever, tf_asked, tf_published>>
    /\ UNCHANGED <<log_start, log_end, exclusive, skipped>>

\* number of entries of s among the first n that are on channel c
RECURSIVE CountOn(_, _, _)
CountOn(s, n, c) ==
    IF n = 0 THEN 0
    ELSE CountOn(s, n - 1, c) + (IF s[n].channel = c THEN 1 ELSE 0)

\* read_messages can deliver m after the tuples in read: every pass reads the
\* same bag, which holds tf_total /tf messages
InBag(read, m) ==
    IF m.channel = TfChannel THEN CountOn(read, Len(read), TfChannel) < tf_total ELSE TRUE

\* the start time with the percentage reduced to a whole number of hundreds
start_time_whole(st, end, p) == Percent * (st + (end - st) * (p \div Percent))

\* iteritems: start_t = st + (end - st) * start_idx / 100.0, here multiplied
\* by 100 to stay in the integers
start_time(st, end, p) == Percent * st + (end - st) * p

\* read_messages(start_time=start_t) delivers message m: its stamp is not
\* before start_t, and not at start_t when the lower bound is exclusive
Delivered(m) ==
    LET start_t == start_time(log_start, log_end, start_idx)
    IN  /\ m.t \in log_start..log_end
        /\ IF exclusive THEN Percent * m.t > start_t ELSE Percent * m.t >= start_t

\* every message of the bag is delivered: none is stamped before start_t
DeliversAll ==
    \A t \in log_start..log_end : Delivered([t |-> t])

\* read_messages passes over a message of the bag stamped before start_t
read_skip(m) ==
    /\ run_pc = "running"
    /\ m.t \in log_start..log_end
    /\ ~Delivered(m)
    /\ skipped' = skipped \cup {m.t}
    /\ UNCHANGED <<decoder, published, run_vars, tf_vars, chk_vars, dec_vars>>
    /\ UNCHANGED <<reader_pc, ctor_err, start_idx, gt_poses, log_start, log_end, exclusive>>

(* ------------------------- ROSBagController ----------------------------- *)
\* subscribe(channel, callback)
subscribe(channel) ==
    /\ run_pc = "idle"
    /\ cb_' = cb_ \cup {channel}
    /\ UNCHANGED <<decoder, run_pc, run_err, log, decoded, frames, calls, cb_raised, published>>
    /\ UNCHANGED <<tf_vars, chk_vars>>
    /\ UNCHANGED <<dec_vars, win_vars>>

\* run(): entry check
run_enter ==
    /\ run_pc = "idle"
    /\ reader_pc = "constructed"
    /\ IF cb_ = {}
       THEN run_pc' = "failed" /\ run_err' = "RuntimeError"
       ELSE run_pc' = "running" /\ run_err' = run_err
    /\ UNCHANGED <<decoder, cb_, log, decoded, frames, calls, cb_raised, published>>
    /\ UNCHANGED <<tf_vars, chk_vars>>
    /\ UNCHANGED <<dec_vars, win_vars>>

\* the loop body of run() that goes on after a callback raised
run_body_swallow(frame, cb_raises) ==
    LET ch == frame[2]
    IN  IF ch \in cb_
        THEN [invoked |-> TRUE, raised |-> cb_raises, err |-> None]
        ELSE [invoked |-> FALSE, raised |-> FALSE, err |-> "RuntimeError"]

\* the loop body of run() for one yielded Frame (t, ch, data):
\* self.cb_[ch](t, data) inside try; any exception (the callback's, or the
\* KeyError of a channel without callback) becomes RuntimeError
run_body(frame, cb_raises) ==
    LET ch == frame[2]
    IN  IF ch \in cb_
        THEN [invoked |-> TRUE, raised |-> cb_raises,
              err |-> IF cb_raises THEN "RuntimeError" ELSE None]
        ELSE [invoked |-> FALSE, raised |-> FALSE, err |-> "RuntimeError"]

\* one pull of a raw tuple m by the generator, and, when it yields a Frame,
\* the body of run()'s loop for that Frame; cb_raises is the callback's outcome
run_step(m, cb_raises) ==
    /\ run_pc = "running"
    /\ Len(log) < MaxLog
    /\ Delivered(m)
    /\ InBag(log, m)
    /\ LET dec == decoder[m.channel]
           r == decode_msg(dec, m.channel, m.data, m.t)
           b == run_body(r.msg, cb_raises)
       IN  /\ log' = Append(log, m)
           /\ decoded' = Append(decoded, r.called)
           /\ decoder' = [decoder EXCEPT ![m.channel] = r.dec]
           /\ published' = IF r.called /\ m.channel = TfChannel
                           THEN Append(published, m.t) ELSE published
           /\ LET l == registered_laser(laser, laser_last, laser_out, m.channel, m.data,
                                        r.called)
              IN  laser' = l.dec /\ laser_last' = l.last /\ laser_out' = l.out
           /\ IF r.res
              THEN /\ frames' = Append(frames, r.msg)
                   /\ calls' = IF b.invoked
                               THEN Append(calls, <<r.msg[2], r.msg[1], r.msg[3]>>)
                               ELSE calls
                   /\ cb_raised' = b.raised
                   /\ IF b.err # None
                      THEN run_pc' = "failed" /\ run_err' = b.err
                      ELSE UNCHANGED <<run_pc, run_err>>
              ELSE UNCHANGED <<frames, calls, cb_raised, run_pc, run_err>>
    /\ UNCHANGED <<cb_, tf_vars, chk_vars>>
    /\ UNCHANGED <<gz_index, gz_last, gz_out, win_vars>>

\* read_messages is exhausted: the generator ends and run() returns; when no
\* message is stamped before start_t, every /tf message of the bag was delivered
run_exhausted ==
    /\ run_pc = "running"
    /\ DeliversAll => CountOn(log, Len(log), TfChannel) = tf_total
    /\ run_pc' = "done"
    /\ UNCHANGED <<decoder, cb_, run_err, log, decoded, frames, calls, cb_raised, published>>
    /\ UNCHANGED <<tf_vars, chk_vars>>
    /\ UNCHANGED <<dec_vars, win_vars>>

(* --------------------- ROSBagReader.establish_tfs ----------------------- *)
\* the (from_tf, to_tf) pairs a caller may request
Relations == {<<"base", "sensor">>, <<"base", "gazebo">>, <<"sensor", "base">>}

Range(s) == {s[i] : i \in 1..Len(s)}

\* RigidTransform(tvec=trans, xyzw=rot) values lookupTransform can produce
Poses == 1..MaxPose

\* lookupTransform raising LookupException, ConnectivityException or
\* ExtrapolationException
LookupFailure == 0

\* what tf_listener.lookupTransform answers, at one message, for each pair
\* of the request list
LookupOutcomes(relations) == [Range(relations) -> Poses \cup {LookupFailure}]

\* the request lists explored (a pair may be named twice)
Requests == UNION {[1..n -> Relations] : n \in 0..MaxRequest}

\* the requested pairs for which lookupTransform succeeds at one message
Answered(relations, outcome) == {r \in Range(relations) : outcome[r] # LookupFailure}

\* the state of a ROSBagReader and of its passes before any call
ReaderInit ==
    /\ published = <<>>
    /\ relations_map = <<>>
    /\ tf_pc = "idle"
    /\ tf_relations = <<>>
    /\ tf_idx = 0
    /\ tf_looked = {}
    /\ tf_result = <<>>
    /\ tf_err = [class |-> None, names |-> {}]
    /\ tf_calls = 0
    /\ tf_resolved = {}
    /\ tf_ever = {}
    /\ tf_asked = <<>>
    /\ tf_published = <<>>
    /\ chk_pc = "idle"
    /\ chk_relations = <<>>
    /\ chk_log = <<>>
    /\ checked = {}
    /\ chk_err = None
    /\ chk_calls = 0
    /\ laser = LaserScanDecoder_init
    /\ laser_last = <<>>
    /\ laser_out = <<>>
    /\ gz_index = NoIndex
    /\ gz_last = <<>>
    /\ gz_out = [raised |-> FALSE, err |-> None, value |-> NoPose]

\* the inner loop storing a message's lookups only when all of them succeeded
tf_store_all(map, relations, outcome) ==
    LET found == {r \in Range(relations) : outcome[r] # LookupFailure}
    IN  IF found = Range(relations)
        THEN [r \in (DOMAIN map) \cup found |-> IF r \in found THEN outcome[r] ELSE map[r]]
        ELSE map

\* the inner loop over relations at one message: every requested pair is
\* looked up, and every successful lookup is stored
tf_store(map, relations, outcome) ==
    LET found == {r \in Range(relations) : outcome[r] # LookupFailure}
    IN  [r \in (DOMAIN map) \cup found |-> IF r \in found THEN outcome[r] ELSE map[r]]

\* the pairs handed to lookupTransform at one message
tf_lookups(map, relations) == Range(relations)

\* the loop's exit test: len(self.relations_map) == len(relations)
tf_finished(map, relations) == Cardinality(DOMAIN map) = Len(relations)

\* the code after the loop returning the poses of the pairs it finds
tf_conclude_found(map, relations) ==
    LET have == SelectSeq(relations, LAMBDA r : r \in DOMAIN map)
    IN  [pc |-> "returned", result |-> [i \in 1..Len(have) |-> map[have[i]]],
         err |-> [class |-> None, names |-> {}]]

\* the code after the loop: the list of poses, or RuntimeError when a
\* requested pair is missing from the map; the message of the RuntimeError
\* is the constant 'Error concerning tf lookup' and names no relation
tf_conclude(map, relations) ==
    IF \A i \in 1..Len(relations) : relations[i] \in DOMAIN map
    THEN [pc |-> "returned", result |-> [i \in 1..Len(relations) |-> map[relations[i]]],
          err |-> [class |-> None, names |-> {}]]
    ELSE [pc |-> "failed", result |-> <<>>,
          err |-> [class |-> "RuntimeError", names |-> {}]]

\* establish_tfs(relations) is called: node, listener and a tf decoder with
\* a publisher of its own are created, and read_messages(topics='/tf') starts
\* at the head of the bag
establish_tfs(relations) ==
    /\ tf_pc # "loop"
    /\ tf_calls < MaxCalls
    /\ tf_calls' = tf_calls + 1
    /\ tf_pc' = "loop"
    /\ tf_relations' = relations
    /\ tf_idx' = 0
    /\ tf_looked' = {}
    /\ tf_result' = <<>>
    /\ tf_err' = [class |-> None, names |-> {}]
    /\ tf_resolved' = {}
    /\ tf_asked' = <<>>
    /\ tf_published' = <<>>
    /\ UNCHANGED <<relations_map, tf_total, tf_ever, decoder, published, run_vars, chk_vars>>
    /\ UNCHANGED <<dec_vars, win_vars>>

\* the decoder registry after a message went through a tf decoder taken
\* from the registry and asked should_decode
tf_dec_decode_registry(registry) ==
    [registry EXCEPT ![TfChannel] = should_decode_effect(@)]

\* the decoder registry after tf_dec.decode(msg): tf_dec is a decoder the
\* pass created for itself and calls directly, the registry is not consulted
tf_dec_decode(registry) == registry

\* one iteration of the loop over /tf messages: republish, look up, store,
\* test for completion; on completion the code after the loop runs
establish_tfs_step(outcome) ==
    /\ tf_pc = "loop"
    /\ tf_idx < tf_total
    /\ LET map == tf_store(relations_map, tf_relations, outcome)
           c == tf_conclude(map, tf_relations)
       IN  /\ tf_idx' = tf_idx + 1
           /\ tf_published' = Append(tf_published, tf_idx + 1)
           /\ decoder' = tf_dec_decode(decoder)
           /\ tf_looked' = tf_lookups(relations_map, tf_relations)
           /\ relations_map' = map
           /\ tf_resolved' = tf_resolved \cup Answered(tf_relations, outcome)
           /\ tf_ever' = tf_ever \cup Answered(tf_relations, outcome)
           /\ IF tf_finished(map, tf_relations)
              THEN tf_pc' = c.pc /\ tf_result' = c.result /\ tf_err' = c.err
              ELSE UNCHANGED <<tf_pc, tf_result, tf_err>>
    /\ UNCHANGED <<tf_relations, tf_total, tf_calls, tf_asked, published, run_vars, chk_vars>>
    /\ UNCHANGED <<dec_vars, win_vars>>

\* read_messages is exhausted: the loop ends and the code after it runs
establish_tfs_exhausted ==
    /\ tf_pc = "loop"
    /\ tf_idx = tf_total
    /\ LET c == tf_conclude(relations_map, tf_relations)
       IN  tf_pc' = c.pc /\ tf_result' = c.result /\ tf_err' = c.err
    /\ UNCHANGED <<relations_map, tf_relations, tf_idx, tf_total, tf_looked, tf_calls,
                   tf_resolved, tf_ever, tf_asked, tf_published, decoder, published,
                   run_vars, chk_vars>>
    /\ UNCHANGED <<dec_vars, win_vars>>

\* tf(from_tf, to_tf) with the reversed pair as a fallback
tf_either(map, relation) ==
    LET reversed == <<relation[2], relation[1]>>
    IN  IF relation \in DOMAIN map THEN [raised |-> FALSE, err |-> None, value |-> map[relation]]
        ELSE IF reversed \in DOMAIN map
        THEN [raised |-> FALSE, err |-> None, value |-> map[reversed]]
        ELSE [raised |-> TRUE, err |-> "KeyError", value |-> NoPose]

\* tf(from_tf, to_tf): the entry of the relation map, or KeyError
tf(map, relation) ==
    IF relation \in DOMAIN map
    THEN [raised |-> FALSE, err |-> None, value |-> map[relation]]
    ELSE [raised |-> TRUE, err |-> "KeyError", value |-> NoPose]

\* a caller reads a relation between two passes
tf_call(relation) ==
    /\ tf_pc # "loop"
    /\ tf_asked' = <<relation, tf(relations_map, relation)>>
    /\ UNCHANGED <<relations_map, tf_pc, tf_relations, tf_idx, tf_total, tf_looked, tf_result,
                   tf_err, tf_calls, tf_resolved, tf_ever, tf_published, decoder, published,
                   run_vars, chk_vars>>
    /\ UNCHANGED <<dec_vars, win_vars>>

(* ------------------- ROSBagReader.check_tf_relations -------------------- *)
\* frame identifiers a message header can carry
FrameIds == {"frameX", "frameY"}

\* messages of a channel carry header.frame_id, except tf2_msgs/TFMessage
HasHeader(channel) == channel # TfChannel

\* the raw tuples read_messages(topics=self.decoder.keys()) can deliver
CheckMessages ==
    {[channel |-> c, frame_id |-> f] : c \in Channels \ {TfChannel}, f \in FrameIds}
        \cup {[channel |-> TfChannel, frame_id |-> None]}

\* the relations arguments explored: lists of (channel, frame_id) pairs
Expectations == UNION {[1..n -> Channels \X FrameIds] : n \in 0..MaxRequest}

\* relations_lut = dict((k,v) for (k,v) in relations): the last pair of a key wins
RECURSIVE relations_lut(_)
relations_lut(relations) ==
    IF relations = <<>> THEN <<>>
    ELSE LET n == Len(relations)
             front == relations_lut(SubSeq(relations, 1, n - 1))
         IN  [k \in (DOMAIN front) \cup {relations[n][1]} |->
                 IF k = relations[n][1] THEN relations[n][2] ELSE front[k]]

\* the body of the loop for one message: the exception that leaves it, or
\* None, and the channel added to checked, if any
check_body(lut, m) ==
    IF ~HasHeader(m.channel)
    THEN [err |-> "AttributeError", add |-> {}]
    ELSE IF m.channel \notin DOMAIN lut
    THEN [err |-> "ValueError", add |-> {}]
    ELSE IF lut[m.channel] = m.frame_id
    THEN [err |-> None, add |-> {m.channel}]
    ELSE [err |-> "ValueError", add |-> {}]

\* check_tf_relations(relations) is called
check_tf_relations(relations) ==
    /\ chk_pc # "loop"
    /\ chk_calls < MaxCalls
    /\ chk_calls' = chk_calls + 1
    /\ chk_pc' = "loop"
    /\ chk_relations' = relations
    /\ chk_log' = <<>>
    /\ checked' = {}
    /\ chk_err' = None
    /\ UNCHANGED <<decoder, published, run_vars, tf_vars>>
    /\ UNCHANGED <<dec_vars, win_vars>>

\* one iteration of the loop over the messages of the registered channels
check_tf_relations_step(m) ==
    /\ chk_pc = "loop"
    /\ Len(chk_log) < MaxLog
    /\ InBag(chk_log, m)
    /\ LET lut == relations_lut(chk_relations)
           b == check_body(lut, m)
       IN  /\ chk_log' = Append(chk_log, m)
           /\ checked' = checked \cup b.add
           /\ chk_err' = b.err
           /\ chk_pc' = IF b.err # None THEN "failed"
                        ELSE IF Cardinality(checked') = Cardinality(DOMAIN lut) THEN "returned"
                        ELSE "loop"
    /\ UNCHANGED <<chk_relations, chk_calls, decoder, published, run_vars, tf_vars>>
    /\ UNCHANGED <<dec_vars, win_vars>>

\* read_messages is exhausted: the loop ends and the function returns; the
\* loop has then read every /tf message of the bag
check_tf_relations_exhausted ==
    /\ chk_pc = "loop"
    /\ CountOn(chk_log, Len(chk_log), TfChannel) = tf_total
    /\ chk_pc' = "returned"
    /\ UNCHANGED <<chk_relations, chk_log, checked, chk_err, chk_calls, decoder, published,
                   run_vars, tf_vars>>
    /\ UNCHANGED <<dec_vars, win_vars>>

(* --------------------------- specifications ----------------------------- *)
\* the controller just constructed
ControllerInit ==
    /\ cb_ = {}
    /\ run_pc = "idle"
    /\ run_err = None
    /\ log = <<>>
    /\ decoded = <<>>
    /\ frames = <<>>
    /\ calls = <<>>
    /\ cb_raised = FALSE

\* a reader constructed with the default start_idx=0 on a bag without
\* /gazebo/model_states messages that spans the stamps explored
DefaultReader ==
    /\ reader_pc = "constructed"
    /\ ctor_err = None
    /\ start_idx = 0
    /\ gt_poses = <<>>
    /\ log_start = 1
    /\ log_end = MaxTime
    /\ exclusive = FALSE
    /\ skipped = {}

\* a reader and a controller just constructed, on a bag with any number of /tf
\* messages up to MaxTfLog
Init ==
    /\ ReaderInit /\ ControllerInit /\ DefaultReader
    /\ decoder \in Registries /\ tf_total \in 0..MaxTfLog

\* playback: subscribe, then run()
Next ==
    \/ \E c \in Channels : subscribe(c)
    \/ run_enter
    \/ \E m \in RawMessages, cb_raises \in BOOLEAN : run_step(m, cb_raises)
    \/ run_exhausted

Spec == Init /\ [][Next]_vars

\* the transform pre-pass: establish_tfs calls on one reader
NextTf ==
    \/ tf_pc # "loop" /\ \E relations \in Requests : establish_tfs(relations)
    \/ tf_pc = "loop" /\ \E outcome \in LookupOutcomes(tf_relations) : establish_tfs_step(outcome)
    \/ establish_tfs_exhausted
    \/ \E relation \in Relations : tf_call(relation)

\* the registry of decoders constructed with their default every_k_frames=1
DefaultRegistry == [c \in Channels |-> Decoder(c, 1)]

\* the bag holds any number of /tf messages up to MaxTfLog
InitTf ==
    /\ ReaderInit /\ ControllerInit /\ DefaultReader
    /\ decoder = DefaultRegistry /\ tf_total \in 0..MaxTfLog

SpecTf == InitTf /\ [][NextTf]_vars

\* the verification pre-pass: check_tf_relations calls on one reader
NextCheck ==
    \/ (chk_pc # "loop" /\ chk_calls < MaxCalls)
          /\ \E relations \in Expectations : check_tf_relations(relations)
    \/ chk_pc = "loop" /\ \E m \in CheckMessages : check_tf_relations_step(m)
    \/ check_tf_relations_exhausted

SpecCheck == InitTf /\ [][NextCheck]_vars

\* decoders constructed and handed messages directly: no /tf message is read
InitDecoders ==
    /\ ReaderInit /\ ControllerInit /\ DefaultReader
    /\ decoder \in Registries /\ tf_total = 0

\* a stream of scans handed to one LaserScanDecoder
NextLaser == \E msg \in LaserScans : laser_decode(msg)

SpecLaser == InitDecoders /\ [][NextLaser]_vars

\* a stream of ModelStates messages handed to one GazeboDecoder
NextGazebo == \E msg \in ModelStates : gz_decode(msg)

SpecGazebo == InitDecoders /\ [][NextGazebo]_vars

\* the well-formed messages of the bag
WindowMessages == {m \in RawMessages : m.data = "ok"}

\* before construction, on a bag with any time span within the stamps
\* explored and either lower-bound semantics of read_messages
InitWindow ==
    /\ ReaderInit /\ ControllerInit
    /\ decoder = DefaultRegistry /\ tf_total \in 0..MaxTfLog
    /\ reader_pc = "new"
    /\ ctor_err = None
    /\ start_idx = 0
    /\ gt_poses = <<>>
    /\ log_start \in 1..MaxTime
    /\ log_end \in log_start..MaxTime
    /\ exclusive \in BOOLEAN
    /\ skipped = {}

\* construction with a start offset, then playback
NextWindow ==
    \/ reader_pc = "new" /\ \E p \in StartIdxs, msgs \in GazeboLogs : construct(p, msgs)
    \/ \E c \in Channels : subscribe(c)
    \/ run_enter
    \/ run_pc = "running" /\ \E m \in WindowMessages : read_skip(m)
    \/ run_pc = "running" /\ \E m \in WindowMessages : run_step(m, FALSE)
    \/ run_exhausted

SpecWindow == InitWindow /\ [][NextWindow]_vars

\* a reader constructed with a start offset of 0 or 50 percent, on a bag with
\* any number of /tf messages up to MaxTfLog
InitPre ==
    /\ ReaderInit /\ ControllerInit
    /\ decoder \in Registries /\ tf_total \in 0..MaxTfLog
    /\ reader_pc = "constructed"
    /\ ctor_err = None
    /\ start_idx \in {0, 50}
    /\ gt_poses = <<>>
    /\ log_start = 1
    /\ log_end = MaxTime
    /\ exclusive = FALSE
    /\ skipped = {}

\* the requests of the sessions explored: at most one relation, and at most
\* one expected channel
PreRequests ==
    {relations \in Requests :
        Len(relations) <= 1 /\ Range(relations) \subseteq {<<"base", "sensor">>}}
PreExpectations ==
    {relations \in Expectations :
        Len(relations) <= 1 /\ Range(relations) \subseteq Channels \X {"frameX"}}

\* the messages playback reads in the sessions explored: well-formed /tf and
\* /scan messages stamped with the end of the bag
PreMessages ==
    {m \in WindowMessages : m.channel \in {TfChannel, ScanChannel} /\ m.t = MaxTime}

\* the messages of those channels the verification pre-pass reads
PreCheckMessages == {m \in CheckMessages : m.channel \in {TfChannel, ScanChannel}}

\* no call is in progress on the reader (calls do not overlap)
Quiet == tf_pc # "loop" /\ chk_pc # "loop" /\ run_pc # "running"

\* the pre-passes, any number of times, then playback
NextPre ==
    \/ (Quiet /\ run_pc = "idle")
          /\ \E relations \in PreRequests : establish_tfs(relations)
    \/ tf_pc = "loop" /\ \E outcome \in LookupOutcomes(tf_relations) : establish_tfs_step(outcome)
    \/ establish_tfs_exhausted
    \/ (Quiet /\ run_pc = "idle")
          /\ \E relations \in PreExpectations : check_tf_relations(relations)
    \/ chk_pc = "loop" /\ \E m \in PreCheckMessages : check_tf_relations_step(m)
    \/ check_tf_relations_exhausted
    \/ \E c \in Channels : subscribe(c)
    \/ Quiet /\ run_enter
    \/ run_pc = "running" /\ \E m \in PreMessages : run_step(m, FALSE)
    \/ run_exhausted

SpecPre == InitPre /\ [][NextPre]_vars

(* ------------------------- helper operators ----------------------------- *)
\* zero-based position of log entry i among the entries of its own channel
ChannelPos(s, i) == CountOn(s, i - 1, s[i].channel)

\* a is a subsequence of b (greedy left-to-right matching)
RECURSIVE IsSubseq(_, _)
IsSubseq(a, b) ==
    IF a = <<>> THEN TRUE
    ELSE IF b = <<>> THEN FALSE
    ELSE IF Head(a) = Head(b) THEN IsSubseq(Tail(a), Tail(b))
    ELSE IsSubseq(a, Tail(b))

NonDecreasing(ts) == \A i \in 1..Len(ts), j \in 1..Len(ts) : i <= j => ts[i] <= ts[j]

(* ------------------------------ claims ---------------------------------- *)
\* C1: the message at zero-based position i of a channel is handed to
\* dec.decode iff i mod every_k_frames = 0, and a decoder's sample_counter
\* equals the number of messages observed on its channel, whatever the
\* outcome of decoding them.
C1_Throttle ==
    /\ \A i \in 1..Len(log) :
          decoded[i] <=> (ChannelPos(log, i) % decoder[log[i].channel].every_k_frames = 0)
    /\ \A c \in Channels : decoder[c].sample_counter = CountOn(log, Len(log), c)

\* a throttled channel has seen three messages, the first of which was
\* handed to decode and failed, the second of which was skipped
C1_Witness ==
    /\ decoder[ImageChannel].every_k_frames = 2
    /\ decoder[ImageChannel].sample_counter = 3
    /\ Len(log) = 3
    /\ log[1].data = "bad"
    /\ decoded = <<TRUE, FALSE, TRUE>>
    /\ Len(frames) = 1

\* the controller has exactly one subscribed channel and every message pulled
\* from the bag is on it
OneChannelRun == Cardinality(cb_) = 1 /\ \A i \in 1..Len(log) : log[i].channel \in cb_

\* the invocations <<channel, t, value>> for the entries of s at the positions in keep
RECURSIVE Invocations(_, _, _)
Invocations(s, n, keep) ==
    IF n = 0 THEN <<>>
    ELSE LET rest == Invocations(s, n - 1, keep)
         IN  IF n \in keep
             THEN Append(rest, <<s[n].channel, s[n].t, decode(s[n].channel, s[n].data).value>>)
             ELSE rest

\* position i (one-based) of the bag is one the throttle of its channel lets through
Sampled(i) == (i - 1) % decoder[log[i].channel].every_k_frames = 0

\* dec.decode does not raise on the message at position i
Decodable(i) == ~decode(log[i].channel, log[i].data).raised

\* C2 as stated: after run() went through a bag of messages of the one
\* subscribed channel, the callback was invoked exactly for the messages at
\* zero-based positions 0, N, 2N, ..., in order, with their timestamp and
\* decoded value.
C2_Original ==
    (run_pc = "done" /\ OneChannelRun)
        => calls = Invocations(log, Len(log), {i \in 1..Len(log) : Sampled(i)})

\* C2 amended: with one subscribed channel and a bag of messages of that
\* channel, the callback invocations are exactly, and in order, those for
\* the pulled messages at zero-based positions 0, N, 2N, ... whose decode
\* call did not raise, each with its own timestamp and decoded value.
C2_Dispatch ==
    OneChannelRun
        => calls = Invocations(log, Len(log), {i \in 1..Len(log) : Sampled(i) /\ Decodable(i)})

\* sample_period 2, three decodable messages: two invocations, for the 1st and 3rd
C2_Witness ==
    /\ run_pc = "done"
    /\ OneChannelRun
    /\ Len(log) = 3
    /\ \A i \in 1..3 : log[i].data = "ok" /\ decoder[log[i].channel].every_k_frames = 2
    /\ log[1].t < log[3].t
    /\ calls = <<<<log[1].channel, log[1].t, decode(log[1].channel, "ok").value>>,
                 <<log[3].channel, log[3].t, decode(log[3].channel, "ok").value>>>>

\* C3: a callback that raises ends run() with RuntimeError at that Frame;
\* afterwards no message is pulled, no Frame is yielded and no callback is
\* invoked.
C3_CallbackFatal ==
    [][/\ cb_raised' => (run_pc' = "failed" /\ run_err' = "RuntimeError")
       /\ cb_raised => (log' = log /\ frames' = frames /\ calls' = calls /\ decoder' = decoder)]_vars

\* the second callback invocation raised while the bag had more to deliver
C3_Witness ==
    /\ cb_raised
    /\ run_pc = "failed"
    /\ Len(calls) = 2
    /\ Len(log) < MaxLog

\* C9: no yielded Frame carries an absent value.
C9_NoAbsentFrame == \A i \in 1..Len(frames) : frames[i][3] # None

\* timestamps of a sequence of raw tuples / of Frames
LogTimes(s) == [i \in 1..Len(s) |-> s[i].t]
FrameTimes(s) == [i \in 1..Len(s) |-> s[i][1]]

\* C10: every step yields at most one Frame, appended after those yielded so
\* far and carrying the timestamp and channel of the raw tuple just pulled,
\* and invokes at most one callback, with that Frame; Frame timestamps are
\* non-decreasing whenever the bag's are.
C10_Order ==
    [][/\ \/ frames' = frames /\ calls' = calls
          \/ /\ Len(log') = Len(log) + 1
             /\ Len(frames') = Len(frames) + 1
             /\ SubSeq(frames', 1, Len(frames)) = frames
             /\ frames'[Len(frames')][1] = log'[Len(log')].t
             /\ frames'[Len(frames')][2] = log'[Len(log')].channel
             /\ \/ calls' = calls
                \/ calls' = Append(calls, <<frames'[Len(frames')][2], frames'[Len(frames')][1],
                                            frames'[Len(frames')][3]>>)
       /\ NonDecreasing(LogTimes(log')) => NonDecreasing(FrameTimes(frames'))]_vars

\* Frames of two channels were yielded, with a skipped message between them
C10_Witness ==
    /\ Len(log) = 3
    /\ Len(frames) = 2
    /\ Len(calls) = 2
    /\ ~decoded[2]
    /\ frames[1][2] # frames[2][2]
    /\ frames[1][1] < frames[2][1]

\* every requested relation has an entry in the relation map
AllResolved == \A r \in Range(tf_relations) : r \in DOMAIN relations_map

\* C4: establish_tfs reads no /tf message once a message has left every
\* requested relation resolved, and it leaves its loop only when every
\* requested relation is resolved or the bag has no further /tf message.
C4_EarlyExit ==
    [][/\ (tf_pc = "loop" /\ tf_idx >= 1 /\ AllResolved) => tf_idx' = tf_idx
       /\ (tf_pc = "loop" /\ tf_pc' # "loop") => (AllResolved' \/ tf_idx' = tf_total)]_vars

\* C5: when establish_tfs fails, every /tf message has been read and the
\* error names exactly the requested relations that are not resolved.
C5_ResolutionError ==
    tf_pc = "failed"
        => /\ tf_idx = tf_total
           /\ tf_err.names = {r \in Range(tf_relations) : r \notin DOMAIN relations_map}

\* C6: an entry of the relation map never changes, and a relation that has
\* an entry is not handed to lookupTransform at a later message.
C6_Immutable ==
    [][\A r \in DOMAIN relations_map :
          /\ r \in DOMAIN relations_map'
          /\ relations_map'[r] = relations_map[r]
          /\ (tf_idx' = tf_idx + 1) => r \notin tf_looked']_vars

\* message i read by check_tf_relations carries a frame identifier other
\* than the one expected for its channel
Mismatch(i) ==
    LET lut == relations_lut(chk_relations)
        m == chk_log[i]
    IN  /\ HasHeader(m.channel)
        /\ m.channel \in DOMAIN lut
        /\ lut[m.channel] # m.frame_id

\* C7: a message with an unexpected frame identifier is the last one read,
\* and check_tf_relations fails on it with an error other than a
\* configuration error.
C7_Mismatch ==
    \A i \in 1..Len(chk_log) :
        Mismatch(i) => /\ i = Len(chk_log)
                       /\ chk_pc = "failed"
                       /\ chk_err \notin {None, ConfigurationError}

\* C8: check_tf_relations returns normally only when every expected channel
\* has been observed with its expected frame identifier.
C8_Unobserved ==
    chk_pc = "returned" => DOMAIN relations_lut(chk_relations) \subseteq checked

\* C11: a callback is invoked only for a Frame whose channel is in cb_, and
\* a Frame yielded on a channel without callback is skipped: nothing is
\* invoked for it and run() goes on.
C11_SkipUnsubscribed ==
    [][/\ \A i \in 1..Len(calls') : calls'[i][1] \in cb_
       /\ (Len(frames') = Len(frames) + 1 /\ frames'[Len(frames')][2] \notin cb_)
             => (calls' = calls /\ run_pc' = run_pc /\ run_err' = run_err)]_vars

\* message i read by check_tf_relations is on a channel that the expected
\* mapping has no entry for
Unexpected(i) ==
    /\ HasHeader(chk_log[i].channel)
    /\ chk_log[i].channel \notin DOMAIN relations_lut(chk_relations)

\* C12: run() without callbacks fails at entry, with no message pulled and
\* no sample_counter changed, and no operation raises a configuration error
\* after it has read a message: check_tf_relations does not fail on a
\* message for want of an entry of the expected mapping.
C12_EagerConfiguration ==
    /\ (run_pc = "failed" /\ cb_ = {})
          => /\ log = <<>>
             /\ \A c \in Channels : decoder[c].sample_counter = 0
    /\ \A i \in 1..Len(chk_log) :
          Unexpected(i) => ~(chk_pc = "failed" /\ chk_err = ConfigurationError)

\* C17: a message whose decode fails yields no Frame and does not end the
\* iteration.
C17_DecodeRecovered ==
    [][(/\ Len(log') = Len(log) + 1
        /\ decoded'[Len(log')]
        /\ log'[Len(log')].data = "bad")
          => (frames' = frames /\ calls' = calls /\ run_pc' = run_pc)]_vars

\* C15: when establish_tfs fails, every requested relation that
\* lookupTransform answered during the call has its entry in the relation
\* map and is readable through tf(), every requested relation that is not
\* in the map fails in tf(), and a first call has read every /tf message.
C15_PartialKept ==
    tf_pc = "failed"
        => /\ \A r \in tf_resolved : r \in DOMAIN relations_map /\ ~tf(relations_map, r).raised
           /\ \A r \in Range(tf_relations) \ tf_ever : tf(relations_map, r).err = "KeyError"
           /\ tf_calls = 1 => tf_idx = tf_total

\* (base, sensor) and (base, gazebo) requested, both /tf messages read,
\* only (base, sensor) answered: the call failed and (base, sensor) is readable
C15_Witness ==
    /\ tf_pc = "failed"
    /\ tf_calls = 1
    /\ tf_relations = <<<<"base", "sensor">>, <<"base", "gazebo">>>>
    /\ tf_idx = 2
    /\ tf_resolved = {<<"base", "sensor">>}
    /\ tf_asked # <<>>
    /\ tf_asked[1] = <<"base", "sensor">>
    /\ ~tf_asked[2].raised

\* C16: tf() returns a pose exactly for the ordered pairs that were
\* requested and answered in some establish_tfs call, the pose being the
\* map's entry; for every other pair it raises KeyError; a tf() call leaves
\* the relation map as it is.
C16_TfAccessor ==
    [][/\ \A r \in Relations :
             LET out == tf(relations_map', r)
             IN  IF r \in tf_ever'
                 THEN ~out.raised /\ out.value = relations_map'[r]
                 ELSE out.raised /\ out.err = "KeyError"
       /\ (tf_asked' # <<>> /\ tf_asked' # tf_asked)
             => /\ tf_asked'[2].raised = (tf_asked'[1] \notin tf_ever)
                /\ relations_map' = relations_map]_vars

\* (base, sensor) is resolved, and the reversed pair is asked for and not found
C16_Witness ==
    /\ tf_ever = {<<"base", "sensor">>}
    /\ tf_asked # <<>>
    /\ tf_asked[1] = <<"sensor", "base">>
    /\ tf_asked[2].raised

\* C20: when establish_tfs has returned, its result has one pose per entry
\* of the request list, in request order, each the relation map's entry for
\* that pair, and tf() returns that pose for every requested pair.
C20_Result ==
    tf_pc = "returned"
        => /\ Len(tf_result) = Len(tf_relations)
           /\ \A i \in 1..Len(tf_relations) :
                 /\ tf_relations[i] \in DOMAIN relations_map
                 /\ tf_result[i] = relations_map[tf_relations[i]]
                 /\ tf(relations_map, tf_relations[i]) =
                        [raised |-> FALSE, err |-> None, value |-> tf_result[i]]

\* two different pairs were requested and resolved to different poses
\* before the /tf messages ran out
C20_Witness ==
    /\ tf_pc = "returned"
    /\ Len(tf_relations) = 2
    /\ tf_relations[1] # tf_relations[2]
    /\ tf_result[1] # tf_result[2]
    /\ tf_idx < tf_total
\* the decoder of the claim's reference: the table is rebuilt from the scan's
\* own angle_min, angle_increment and sample count on every call
reference_decode(msg) ==
    [i \in 1..Len(msg.ranges)
       |-> Point(msg.ranges[i], msg.angle_min + (i - 1) * msg.angle_increment)]

\* C18: whatever scans one LaserScanDecoder has been fed, the output of its
\* last decode call (computed with the cached table) equals the output of the
\* reference decoder on the same scan
C18_CacheEquivalent ==
    \A i \in 1..Len(laser_last) : laser_out = reference_decode(laser_last[i])

\* the name array holds no entry equal to the model name
Absent(names) == \A j \in 1..Len(names) : names[j] # ModelName

\* the least position (from 0) of the model name in a name array holding it
FirstOf(names) ==
    CHOOSE j \in 0..(Len(names) - 1) :
        /\ names[j + 1] = ModelName
        /\ \A k \in 1..j : names[k] # ModelName

\* C19 as stated: the index, once cached, never changes, and whenever the
\* name array of the decoded message does not hold the model name the decode
\* call fails instead of returning a pose
C19_Original ==
    [][/\ gz_index # NoIndex => gz_index' = gz_index
       /\ \A i \in 1..Len(gz_last') : Absent(gz_last'[i].name) => gz_out'.raised]_vars

\* C19 amended: the first decode whose name array holds the model name caches
\* the position of its first occurrence, and the index never changes
\* afterwards. A decode fails, with TypeError, exactly when no index is cached
\* and the name array does not hold the model name; with a cached index it
\* returns the pose at that index of the message's pose array whatever the
\* name array holds, or fails with IndexError when the array is too short
C19_CachedIndex ==
    [][\A i \in 1..Len(gz_last') :
          LET msg == gz_last'[i]
          IN  /\ gz_index # NoIndex => gz_index' = gz_index
              /\ (gz_index = NoIndex /\ ~Absent(msg.name)) => gz_index' = FirstOf(msg.name)
              /\ (gz_index = NoIndex /\ Absent(msg.name))
                    => gz_index' = NoIndex /\ gz_out'.raised /\ gz_out'.err = "TypeError"
              /\ (gz_index' # NoIndex /\ gz_index' < Len(msg.pose))
                    => ~gz_out'.raised /\ gz_out'.value = msg.pose[gz_index' + 1]
              /\ (gz_index' # NoIndex /\ gz_index' >= Len(msg.pose))
                    => gz_out'.raised /\ gz_out'.err = "IndexError"]_vars

\* the index was cached at the second entry, and a later message whose name
\* array does not hold the model name was decoded to the pose of its second entry
C19_Witness ==
    /\ gz_index = 1
    /\ gz_last # <<>>
    /\ Absent(gz_last[1].name)
    /\ gz_last[1].pose = <<1, 2>>
    /\ gz_out = [raised |-> FALSE, err |-> None, value |-> 2]

\* C13: a reader constructed with a start offset p < 0 or p > 100 fails with
\* the configuration error in the constructor and never starts an iteration;
\* no p with 0 <= p <= 100 is answered with the configuration error, and a
\* reader whose constructor raised nothing is constructed with that p
C13_StartRange ==
    reader_pc # "new" =>
        /\ (start_idx < 0 \/ start_idx > 100)
              => /\ reader_pc = "failed" /\ ctor_err = ConfigurationError
                 /\ run_pc = "idle" /\ log = <<>> /\ skipped = {}
        /\ (0 <= start_idx /\ start_idx <= 100)
              => /\ ctor_err # ConfigurationError
                 /\ (reader_pc = "constructed") = (ctor_err = None)
        /\ run_pc # "idle" => reader_pc = "constructed"

\* the constructor was handed p = 101 and raised the configuration error
C13_Witness ==
    /\ reader_pc = "failed"
    /\ start_idx = 101
    /\ ctor_err = ConfigurationError
    /\ run_pc = "idle"

\* C14: with p in [0,100], every message read and every Frame yielded is
\* stamped at or after log_start + (log_end - log_start) * p / 100 and every
\* message passed over is stamped before it (or at it, when the lower bound
\* is exclusive); at p = 0 the start time is the log's start time, and at
\* p = 100 with an exclusive lower bound nothing is read and no Frame yielded
C14_Window ==
    reader_pc = "constructed" =>
        /\ \A i \in 1..Len(log) :
              100 * log[i].t >= 100 * log_start + (log_end - log_start) * start_idx
        /\ \A i \in 1..Len(frames) :
              100 * frames[i][1] >= 100 * log_start + (log_end - log_start) * start_idx
        /\ \A t \in skipped :
              /\ 100 * t <= 100 * log_start + (log_end - log_start) * start_idx
              /\ ~exclusive => 100 * t < 100 * log_start + (log_end - log_start) * start_idx
        /\ start_idx = 0 => start_time(log_start, log_end, start_idx) = 100 * log_start
        /\ (start_idx = 100 /\ exclusive) => log = <<>> /\ frames = <<>>

\* a reader with p = 50 on a bag spanning stamps 1 to 2 passed over the
\* message stamped 1 and yielded the Frame of the message stamped 2
C14_Witness ==
    /\ reader_pc = "constructed"
    /\ start_idx = 50
    /\ log_start = 1 /\ log_end = 2
    /\ skipped = {1}
    /\ Len(frames) = 1
    /\ frames[1][1] = 2
    /\ Len(calls) = 1

\* C21: a step of establish_tfs or of check_tf_relations, whatever its
\* outcome, leaves the decoder registry, the registered decoders' cached state
\* and publisher and the controller unchanged; so in playback after any pre-passes every decoder's
\* sample_counter is the number of messages playback itself pulled on its
\* channel, and a pulled message is decoded exactly when it is at a multiple
\* of the sampling period among playback's messages of its channel. While a
\* transform pre-pass runs, the messages it has republished are the first
\* tf_idx /tf messages of the bag, each once, whatever the start offset and
\* the sampling period of the registered /tf decoder
C21_PrePassFrame ==
    [][/\ (tf_vars' # tf_vars \/ chk_vars' # chk_vars)
             => /\ decoder' = decoder
                /\ dec_vars' = dec_vars
                /\ published' = published
                /\ run_vars' = run_vars
       /\ \A c \in Channels :
             /\ decoder'[c].every_k_frames = decoder[c].every_k_frames
             /\ decoder'[c].sample_counter = CountOn(log', Len(log'), c)
       /\ \A i \in 1..Len(log') :
             decoded'[i] = (ChannelPos(log', i) % decoder'[log'[i].channel].every_k_frames = 0)
       /\ (tf_pc = "loop" \/ tf_pc' = "loop")
             => tf_published' = [i \in 1..tf_idx' |-> i]]_vars

\* after a verification pre-pass that returned and two transform pre-passes,
\* the last of which republished both /tf messages of the bag and failed, on a
\* reader with start offset 50 and sampling period 2, playback pulled the two
\* /tf messages and a scan: it decoded the first /tf message and the scan, the
\* registered /tf decoder published once and the scan decoder built its table
C21_Witness ==
    /\ chk_calls = 1
    /\ chk_pc = "returned"
    /\ tf_calls = 2
    /\ tf_idx = 2
    /\ tf_pc = "failed"
    /\ tf_published = <<1, 2>>
    /\ start_idx = 50
    /\ decoder[TfChannel].every_k_frames = 2
    /\ decoder[TfChannel].sample_counter = 2
    /\ Len(log) = 3
    /\ log[1].channel = TfChannel /\ log[2].channel = TfChannel /\ log[3].channel = ScanChannel
    /\ decoded = <<TRUE, FALSE, TRUE>>
    /\ published = <<MaxTime>>
    /\ laser # LaserScanDecoder_init
    /\ Len(calls) = 2

\* the expected channels seen with their expected frame identifier among the
\* first n messages read by check_tf_relations
CheckedUpTo(n) ==
    LET lut == relations_lut(chk_relations)
    IN  {chk_log[j].channel : j \in {k \in 1..n : /\ chk_log[k].channel \in DOMAIN lut
                                                  /\ lut[chk_log[k].channel] = chk_log[k].frame_id}}

\* C22: a message read by check_tf_relations on a channel without entry in
\* the expected mapping is the last one read and the pass fails on it with
\* the configuration error; and no message is read after one at which every
\* expected channel had been checked
C22_UnexpectedChannel ==
    /\ \A i \in 1..Len(chk_log) :
          chk_log[i].channel \notin DOMAIN relations_lut(chk_relations)
             => /\ i = Len(chk_log)
                /\ chk_pc = "failed"
                /\ chk_err = ConfigurationError
    /\ \A i \in 1..(Len(chk_log) - 1) :
          CheckedUpTo(i) # DOMAIN relations_lut(chk_relations)

====
